---------------------------- MODULE Spec2Model ----------------------------
(***************************************************************************)
(* Histogram equalisation on an OpenCL device: a model of                  *)
(* src/assignment1/assignment1.cpp (next_power_of_2 and main).             *)
(*                                                                         *)
(* Five specifications share the variables below.                          *)
(*   SpecPad   next_power_of_2 and the histogram buffer length, over a     *)
(*             wide set of bin counts.                                     *)
(*   SpecData  the values one channel's buffers take through steps 1 to 4  *)
(*             (zero-init, hist_local, scan, normalize_lut), each step     *)
(*             taken as a whole.                                           *)
(*   SpecHist  steps 1 and 2 with the work-items of hist_local             *)
(*             interleaved.                                                *)
(*   SpecProject  the samples of every channel through the split, the      *)
(*             per-channel loop (steps 1 to 5 and the channel update) and  *)
(*             the assembly of output_image.                               *)
(*   Spec      the host thread of main: argument parsing, validation,      *)
(*             loading, the per-channel command sequence on the in-order   *)
(*             command queue, exceptions and the exit status.              *)
(*                                                                         *)
(* The device kernels are loaded from kernels/my_kernels.cl at run time    *)
(* (line 109); their bodies are modelled from the component contracts of   *)
(* the specification and from the arguments and extents main dispatches    *)
(* them with.                                                              *)
(***************************************************************************)
EXTENDS Integers, Sequences, FiniteSets, TLC

VARIABLES
    pc,               \* position of the host thread (per specification)
    num_bins,         \* int num_bins
    scan_type,        \* std::string scan_type, a tuple of characters
    padded_num_bins,  \* size_t padded_num_bins
    hist_size,        \* size_t hist_size, the length of dev_histogram[c]
    image,            \* input_channels[c].data(): the samples of one channel
    dev_histogram,    \* contents of dev_histogram[c]
    dev_cum_histogram,\* contents of dev_cum_histogram[c]
    dev_lut,          \* contents of dev_lut[c]
    histogram,        \* std::vector histogram, read back in step 2
    cum_histogram,    \* std::vector cum_histogram, read back in step 3
    lut,              \* std::vector lut, read back in step 4
    lane_pc,          \* hist_local: each work-item's position
    lane_val,         \* hist_local: the sample each work-item read
    lane_bin,         \* hist_local: the next bin a work-item merges
    local_hist,       \* hist_local: each work-group's local histogram
    argv,             \* argv[1..argc-1], each a tuple of characters
    i,                \* the index of the argument parsing loop
    platform_id,      \* int platform_id
    device_id,        \* int device_id
    image_filename,   \* std::string image_filename
    listed,           \* ListPlatformsDevices() has been printed
    help_printed,     \* print_help() has run
    exit_status,      \* the value main returned
    error,            \* the error of this run, "none" while there is none
    loaded,           \* image_input holds the decoded image
    channels,         \* size_t channels = image_input.spectrum()
    c,                \* the channel index of the per-channel loop
    queue,            \* commands enqueued on the command queue, not yet run
    dispatched,       \* every <<channel, command>> enqueued so far
    done,             \* every <<channel, command>> the device has completed
    output_image,     \* output_image has been assembled
    reported,         \* the performance metrics have been printed
    width,            \* size_t width = image_input.width()
    height,           \* size_t height = image_input.height()
    image_input,      \* image_input(x, y, 0, c), by channel and position
    input_channels,   \* input_channels[c](x, y), by channel and position
    dev_image_output, \* contents of dev_image_output[c], by channel
    dev_luts,         \* contents of dev_lut[k] of the channels already processed
    output_buffer,    \* std::vector output_buffer, read back in step 5
    output_samples    \* output_image(x, y, 0, c), by channel and position

padVars == <<num_bins, scan_type, padded_num_bins, hist_size>>

dataVars == <<image, dev_histogram, dev_cum_histogram, dev_lut,
              histogram, cum_histogram, lut>>

laneVars == <<lane_pc, lane_val, lane_bin, local_hist>>

parseVars == <<i, platform_id, device_id, image_filename, listed, help_printed>>

runVars == <<loaded, channels, c, output_image, reported>>

queueVars == <<queue, dispatched, done>>

hostVars == <<argv, parseVars, exit_status, error, runVars, queueVars>>

projVars == <<width, height, image_input, input_channels, dev_image_output,
              dev_luts, output_buffer, output_samples>>

vars == <<pc, padVars, dataVars, laneVars, hostVars, projVars>>

-----------------------------------------------------------------------------
(* Strings are tuples of characters, so that strcmp, atoi and the string   *)
(* comparisons of main act on them as the library functions do.            *)

BL == <<"b", "l">>
HS == <<"h", "s">>

(* Not yet computed (padded_num_bins and hist_size before their line).     *)
UNSET == -1

-----------------------------------------------------------------------------
(* size_t arithmetic of next_power_of_2.  Every value that occurs stays    *)
(* below 2^31, so no width is lost.                                        *)

RECURSIVE Pow2(_)
Pow2(k) == IF k = 0 THEN 1 ELSE 2 * Pow2(k - 1)

\* n >> k
ShiftRight(n, k) == n \div Pow2(k)

\* a | b
RECURSIVE BitOr(_, _)
BitOr(a, b) ==
    IF a = 0 THEN b
    ELSE IF b = 0 THEN a
    ELSE (IF (a % 2 = 1) \/ (b % 2 = 1) THEN 1 ELSE 0)
         + 2 * BitOr(a \div 2, b \div 2)

\* n |= n >> k
Smear(n, k) == BitOr(n, ShiftRight(n, k))

\* A plausible slip: the last smear (n |= n >> 16) left out.
next_power_of_2_short(n) ==
    IF n = 0 THEN 1
    ELSE Smear(Smear(Smear(Smear(n - 1, 1), 2), 4), 8) + 1

next_power_of_2(n) ==
    IF n = 0 THEN 1
    ELSE Smear(Smear(Smear(Smear(Smear(n - 1, 1), 2), 4), 8), 16) + 1

\* size_t hist_size = (scan_type == "bl") ? padded_num_bins : num_bins;
HistSize(st, padded, bins) == IF st = BL THEN padded ELSE bins

-----------------------------------------------------------------------------
(* SpecPad: next_power_of_2 applied to a bin count, then the buffer length.*)

MaxPadInput == 130
MaxPadExp == 29

PowersOfTwo == { Pow2(k) : k \in 0..MaxPadExp }

\* 0..MaxPadInput, and every power of two up to 2^30 with its neighbours.
PadInputs ==
    (0..MaxPadInput)
    \cup { p + d : p \in { Pow2(k) : k \in 7..MaxPadExp }, d \in {-1, 0} }
    \cup { p + 1 : p \in { Pow2(k) : k \in 7..(MaxPadExp - 1) } }

\* The variables a specification does not use.
IdleData ==
    /\ image = <<>>
    /\ dev_histogram = <<>>
    /\ dev_cum_histogram = <<>>
    /\ dev_lut = <<>>
    /\ histogram = <<>>
    /\ cum_histogram = <<>>
    /\ lut = <<>>

IdleLanes ==
    /\ lane_pc = <<>>
    /\ lane_val = <<>>
    /\ lane_bin = <<>>
    /\ local_hist = <<>>

IdleHost ==
    /\ argv = <<>>
    /\ i = 1
    /\ platform_id = 0
    /\ device_id = 0
    /\ image_filename = <<>>
    /\ listed = FALSE
    /\ help_printed = FALSE
    /\ exit_status = UNSET
    /\ error = "none"
    /\ loaded = FALSE
    /\ channels = 0
    /\ c = 0
    /\ queue = <<>>
    /\ dispatched = {}
    /\ done = {}
    /\ output_image = FALSE
    /\ reported = FALSE

IdleProj ==
    /\ width = 0
    /\ height = 0
    /\ image_input = <<>>
    /\ input_channels = <<>>
    /\ dev_image_output = <<>>
    /\ dev_luts = <<>>
    /\ output_buffer = <<>>
    /\ output_samples = <<>>

InitPad ==
    /\ IdleProj
    /\ IdleData
    /\ IdleLanes
    /\ IdleHost
    /\ pc = "pad"
    /\ num_bins \in PadInputs
    /\ scan_type \in {BL, HS}
    /\ padded_num_bins = UNSET
    /\ hist_size = UNSET

\* size_t padded_num_bins = next_power_of_2(num_bins);
PadBins ==
    /\ pc = "pad"
    /\ padded_num_bins' = next_power_of_2(num_bins)
    /\ pc' = "hist_size"
    /\ UNCHANGED <<num_bins, scan_type, hist_size, dataVars, laneVars, hostVars, projVars>>

\* main reaches line 141 only with num_bins > 0 (line 54).
SizeHistogram ==
    /\ pc = "hist_size"
    /\ num_bins > 0
    /\ hist_size' = HistSize(scan_type, padded_num_bins, num_bins)
    /\ pc' = "sized"
    /\ UNCHANGED <<num_bins, scan_type, padded_num_bins, dataVars, laneVars, hostVars, projVars>>

NextPad == PadBins \/ SizeHistogram

SpecPad == InitPad /\ [][NextPad]_vars

-----------------------------------------------------------------------------
(* Device data of one channel.                                             *)
(*                                                                         *)
(* The model runs with a small intensity domain and a small work-group:    *)
(* IntensityLevels stands for the 65536 levels of an unsigned short        *)
(* (lines 147, 255, 258) and local_size for the work-group size of 256     *)
(* (line 183).  Every formula of main is kept in terms of the two.         *)

IntensityLevels == 4
local_size == 2
MaxPixels == 3
MaxBins == 3

\* 65535, the largest unsigned short, in  scale = 65535.0f / (width * height)
output_max == IntensityLevels - 1

\* Device memory no command has written yet.
UNINIT == -2

Levels == 0..(IntensityLevels - 1)

RECURSIVE SumSeq(_)
SumSeq(s) == IF s = <<>> THEN 0 ELSE Head(s) + SumSeq(Tail(s))

FirstN(s, n) == SubSeq(s, 1, n)

Filled(n, x) == [k \in 1..n |-> x]

\* size_t image_size = width * height;
image_size == Len(image)

\* size_t global_size = ((image_size + local_size - 1) / local_size) * local_size;
global_size == ((image_size + local_size - 1) \div local_size) * local_size

\* The quantisation of a raw value to its bin: floor(v * B / range), at most B-1.
BinOf(v, bins) ==
    LET b == (v * bins) \div IntensityLevels
    IN  IF b > bins - 1 THEN bins - 1 ELSE b

(* hist_local as a whole: work-item gid reads vals[gid+1] and adds one to   *)
(* that value's bin; atomic additions commute, so the sums do not depend   *)
(* on the order of the work-items.                                         *)
HistLocalResult(H, vals, bins) ==
    [k \in 1..Len(H) |->
        IF k <= bins
        THEN H[k] + Cardinality({ l \in 1..Len(vals) : BinOf(vals[l], bins) = k - 1 })
        ELSE H[k]]

(* What the work-items of a dispatch over `lanes` items read from a buffer *)
(* holding img: an item at or past the end of the buffer reads out of      *)
(* bounds, which yields any value of the sample type.                      *)
LaneReads(img, lanes) ==
    { r \in [1..lanes -> Levels] : \A l \in 1..Len(img) : r[l] = img[l] }

-----------------------------------------------------------------------------
(* scan_bl(A, n): one work-group of n items over A[0..n-1].                *)

\* One up-sweep level: items with (id+1) % (2*stride) = 0 add A[id-stride].
UpLevel(A, stride) ==
    [k \in 1..Len(A) |->
        IF k % (2 * stride) = 0 THEN A[k] + A[k - stride] ELSE A[k]]

RECURSIVE UpSweep(_, _, _)
UpSweep(A, stride, n) ==
    IF stride < n THEN UpSweep(UpLevel(A, stride), 2 * stride, n) ELSE A

\* One down-sweep level: the same items pass their value left and add it.
DownLevel(A, stride) ==
    [k \in 1..Len(A) |->
        IF k % (2 * stride) = 0 THEN A[k] + A[k - stride]
        ELSE IF (k + stride) % (2 * stride) = 0 /\ k + stride <= Len(A)
             THEN A[k + stride]
        ELSE A[k]]

RECURSIVE DownSweep(_, _)
DownSweep(A, stride) ==
    IF stride >= 1 THEN DownSweep(DownLevel(A, stride), stride \div 2) ELSE A

\* The exclusive scan of the first n entries of A.
BlExclusive(A, n) ==
    LET up == UpSweep(FirstN(A, n), 1, n)
        cleared == [up EXCEPT ![n] = 0]
    IN  DownSweep(cleared, n \div 2)

(* The buffer after scan_bl: each item adds the count it held at the start,*)
(* which makes the scan inclusive; entries from n on are left as they were.*)
scan_bl(A, n) ==
    LET ex == BlExclusive(A, n)
    IN  [k \in 1..Len(A) |-> IF k <= n THEN ex[k] + A[k] ELSE A[k]]

-----------------------------------------------------------------------------
(* scan_hs(A, B): N = global size items, doubling steps between A and B.   *)

HsLevel(A, stride) ==
    [k \in 1..Len(A) |-> IF k - 1 >= stride THEN A[k] + A[k - stride] ELSE A[k]]

\* <<values of the last step, values of the step before it>>
RECURSIVE HsSteps(_, _, _, _)
HsSteps(cur, prev, stride, n) ==
    IF stride < n THEN HsSteps(HsLevel(cur, stride), cur, 2 * stride, n)
    ELSE <<cur, prev>>

\* Entries 1..n of buffer X replaced by vals.
Overlay(X, vals, n) ==
    [k \in 1..Len(X) |-> IF k <= n THEN vals[k] ELSE X[k]]

-----------------------------------------------------------------------------
(* normalize_lut(H, LUT, scale, nr_bins): item v writes LUT[v].            *)

(* cumulative count * scale, with scale = output_max / pixels, clamped to  *)
(* [0, output_max] and stored as an unsigned short.  The float product is  *)
(* modelled by the exact quotient rounded down: both are monotonic in the  *)
(* count.                                                                  *)
Clamp(x) == IF x < 0 THEN 0 ELSE IF x > output_max THEN output_max ELSE x

LutEntry(H, v, bins, pixels) ==
    Clamp((H[BinOf(v, bins) + 1] * output_max) \div pixels)

\* A plausible slip: the dispatch one item short of the table.
NormalizeExtentShort == IntensityLevels - 1

\* cl::NDRange(65536) on line 255: one item per raw intensity.
NormalizeExtent == IntensityLevels

normalize_lut(H, LUT, bins, pixels) ==
    [k \in 1..Len(LUT) |->
        IF k <= NormalizeExtent THEN LutEntry(H, k - 1, bins, pixels) ELSE LUT[k]]

-----------------------------------------------------------------------------
(* SpecData: the values of one channel's buffers, steps 1 to 4 of the      *)
(* per-channel loop.  Each step is the whole of the host's step: the       *)
(* dispatch, the wait for its event and the blocking read-back.            *)

Images == UNION { [1..n -> Levels] : n \in 1..MaxPixels }

InitData ==
    /\ IdleProj
    /\ IdleLanes
    /\ IdleHost
    /\ pc = "step1"
    /\ image \in Images
    /\ num_bins \in 1..MaxBins
    /\ scan_type \in {BL, HS}
    /\ padded_num_bins = next_power_of_2(num_bins)
    /\ hist_size = HistSize(scan_type, padded_num_bins, num_bins)
    /\ dev_histogram = Filled(hist_size, UNINIT)
    /\ dev_cum_histogram = Filled(hist_size, UNINIT)
    /\ dev_lut = Filled(IntensityLevels, UNINIT)
    /\ histogram = <<>>
    /\ cum_histogram = <<>>
    /\ lut = <<>>

\* Step 1: std::vector<unsigned int> zeros(hist_size, 0) written to dev_histogram[c].
Step1 ==
    /\ pc = "step1"
    /\ dev_histogram' = Filled(hist_size, 0)
    /\ pc' = "step2"
    /\ UNCHANGED <<padVars, image, dev_cum_histogram, dev_lut,
                   histogram, cum_histogram, lut, laneVars, hostVars, projVars>>

\* Step 2: hist_local over global_size items, then the read-back.
Step2 ==
    /\ pc = "step2"
    /\ \E r \in LaneReads(image, global_size) :
          dev_histogram' = HistLocalResult(dev_histogram, r, num_bins)
    /\ histogram' = dev_histogram'
    /\ pc' = "step3"
    /\ UNCHANGED <<padVars, image, dev_cum_histogram, dev_lut,
                   cum_histogram, lut, laneVars, hostVars, projVars>>

\* A plausible slip: scan_bl dispatched over the unpadded bin count.
ScanBlExtentUnpadded == num_bins

\* scan_kernel.setArg(1, (int)padded_num_bins); NDRange(padded_num_bins)
ScanBlExtent == padded_num_bins

\* cl::NDRange(num_bins) for scan_hs
ScanHsExtent == num_bins

\* enqueueCopyBuffer(dev_cum_histogram[c], dev_histogram[c], 0, 0, num_bins * sizeof(unsigned int))
CopyCount == num_bins

\* dev_histogram after the "bl" branch.
Step3Bl(H) == scan_bl(H, ScanBlExtent)

(* <<dev_histogram, dev_cum_histogram>> after the "hs" branch: scan_hs     *)
(* leaves its result in its second buffer and the step before the last in  *)
(* its first; the copy then overwrites the first CopyCount entries of      *)
(* dev_histogram.                                                          *)
Step3Hs(H, C) ==
    LET n == ScanHsExtent
        r == HsSteps(FirstN(H, n), FirstN(H, n), 1, n)
        C2 == Overlay(C, r[1], n)
        H2 == Overlay(H, r[2], n)
    IN  <<Overlay(H2, C2, CopyCount), C2>>

\* Step 3, scan_type == "bl".
Step3Blelloch ==
    /\ pc = "step3"
    /\ scan_type = BL
    /\ dev_histogram' = Step3Bl(dev_histogram)
    /\ cum_histogram' = dev_histogram'
    /\ pc' = "step4"
    /\ UNCHANGED <<padVars, image, dev_cum_histogram, dev_lut,
                   histogram, lut, laneVars, hostVars, projVars>>

\* Step 3, scan_type == "hs".
Step3HillisSteele ==
    /\ pc = "step3"
    /\ scan_type = HS
    /\ dev_histogram' = Step3Hs(dev_histogram, dev_cum_histogram)[1]
    /\ dev_cum_histogram' = Step3Hs(dev_histogram, dev_cum_histogram)[2]
    /\ cum_histogram' = dev_histogram'
    /\ pc' = "step4"
    /\ UNCHANGED <<padVars, image, dev_lut, histogram, lut, laneVars, hostVars, projVars>>

\* Step 4: normalize_lut over dev_histogram[c], then the read-back of dev_lut[c].
Step4 ==
    /\ pc = "step4"
    /\ dev_lut' = normalize_lut(dev_histogram, dev_lut, num_bins, image_size)
    /\ lut' = dev_lut'
    /\ pc' = "step5"
    /\ UNCHANGED <<padVars, image, dev_histogram, dev_cum_histogram,
                   histogram, cum_histogram, laneVars, hostVars, projVars>>

NextData == Step1 \/ Step2 \/ Step3Blelloch \/ Step3HillisSteele \/ Step4

SpecData == InitData /\ [][NextData]_vars

-----------------------------------------------------------------------------
(* SpecHist: step 2 with the work-items of hist_local interleaved.         *)
(* Item gid (lane gid+1) belongs to group gid / local_size and has local   *)
(* id gid % local_size.  It zeroes its share of the local histogram, waits *)
(* at the barrier, adds one to the bin of the sample it reads, waits at    *)
(* the barrier, and adds its share of the local histogram to the global    *)
(* one; every addition is atomic.                                          *)

GroupOf(l) == ((l - 1) \div local_size) + 1
LocalId(l) == (l - 1) % local_size
Lanes == 1..global_size
GroupLanes(g) == { l \in Lanes : GroupOf(l) = g }

HistDispatch ==
    /\ pc = "step2"
    /\ pc' = "hist_kernel"
    /\ lane_pc' = [l \in Lanes |-> "zero"]
    /\ lane_val' = [l \in Lanes |-> UNINIT]
    /\ lane_bin' = [l \in Lanes |-> LocalId(l)]
    /\ local_hist' = [g \in 1..(global_size \div local_size) |->
                         Filled(num_bins, UNINIT)]
    /\ UNCHANGED <<padVars, dataVars, hostVars, projVars>>

LaneZero(l) ==
    /\ pc = "hist_kernel"
    /\ lane_pc[l] = "zero"
    /\ local_hist' = [local_hist EXCEPT ![GroupOf(l)] =
          [k \in 1..num_bins |->
              IF (k - 1) % local_size = LocalId(l) THEN 0 ELSE @[k]]]
    /\ lane_pc' = [lane_pc EXCEPT ![l] = "bin"]
    /\ UNCHANGED <<pc, padVars, dataVars, lane_val, lane_bin, hostVars, projVars>>

\* The sample item l reads: its own pixel, or anything past the buffer's end.
SampleRead(l) == IF l <= image_size THEN {image[l]} ELSE Levels

LaneBin(l) ==
    /\ pc = "hist_kernel"
    /\ lane_pc[l] = "bin"
    /\ \A m \in GroupLanes(GroupOf(l)) : lane_pc[m] # "zero"
    /\ \E v \in SampleRead(l) :
          /\ lane_val' = [lane_val EXCEPT ![l] = v]
          /\ local_hist' = [local_hist EXCEPT
                               ![GroupOf(l)][BinOf(v, num_bins) + 1] = @ + 1]
    /\ lane_pc' = [lane_pc EXCEPT ![l] = "merge"]
    /\ UNCHANGED <<pc, padVars, dataVars, lane_bin, hostVars, projVars>>

LaneMerge(l) ==
    /\ pc = "hist_kernel"
    /\ lane_pc[l] = "merge"
    /\ \A m \in GroupLanes(GroupOf(l)) : lane_pc[m] \notin {"zero", "bin"}
    /\ IF lane_bin[l] < num_bins
       THEN /\ dev_histogram' = [dev_histogram EXCEPT ![lane_bin[l] + 1] =
                                    @ + local_hist[GroupOf(l)][lane_bin[l] + 1]]
            /\ lane_bin' = [lane_bin EXCEPT ![l] = @ + local_size]
            /\ UNCHANGED lane_pc
       ELSE /\ lane_pc' = [lane_pc EXCEPT ![l] = "done"]
            /\ UNCHANGED <<dev_histogram, lane_bin, projVars>>
    /\ UNCHANGED <<pc, padVars, image, dev_cum_histogram, dev_lut,
                   histogram, cum_histogram, lut, lane_val, local_hist, hostVars, projVars>>

\* event2a.wait() returns, then the blocking read of dev_histogram[c].
HistRead ==
    /\ pc = "hist_kernel"
    /\ \A l \in Lanes : lane_pc[l] = "done"
    /\ histogram' = dev_histogram
    /\ pc' = "hist_done"
    /\ UNCHANGED <<padVars, image, dev_histogram, dev_cum_histogram, dev_lut,
                   cum_histogram, lut, laneVars, hostVars, projVars>>

NextHist ==
    \/ Step1
    \/ HistDispatch
    \/ \E l \in Lanes : LaneZero(l)
    \/ \E l \in Lanes : LaneBin(l)
    \/ \E l \in Lanes : LaneMerge(l)
    \/ HistRead

SpecHist == InitData /\ [][NextHist]_vars

-----------------------------------------------------------------------------
(* SpecProject: the samples of every channel through the per-channel loop  *)
(* and the recombination: the split into channels, steps 1 to 4 as in      *)
(* SpecData, step 5 (back_project and its read-back), the update of        *)
(* input_channels[c], and the assembly of output_image.  In this           *)
(* specification c counts from 0 as in the code, sequences are indexed     *)
(* from 1, and image holds the samples written to dev_image_input[c].      *)

MaxProjChannels == 2
MaxProjPixels == 2

\* The pixel positions (x, y) of a w x h image.
PositionsOf(w, h) == (0..(w - 1)) \X (0..(h - 1))

Positions == PositionsOf(width, height)

\* output_buffer[x + y * width]: the offset of (x, y) in a channel's buffer.
Offset(x, y) == x + y * width

\* input_channels[c].data(): the samples of a one-channel image in memory order.
Data(img) ==
    [p \in 1..(width * height) |-> img[<<(p - 1) % width, (p - 1) \div width>>]]

\* The width and height of the images loaded.
Shapes ==
    { sh \in (1..MaxProjPixels) \X (1..MaxProjPixels) :
         sh[1] * sh[2] <= MaxProjPixels }

(* The images loaded: the first channel takes every value at every         *)
(* position, and channel ch holds the first channel's samples raised by    *)
(* ch - 1 modulo the number of levels, so that no two channels agree.      *)
LoadedImages(w, h, k) ==
    { [ch \in 1..k |->
          [xy \in PositionsOf(w, h) |-> (first[xy] + ch - 1) % IntensityLevels]] :
      first \in [PositionsOf(w, h) -> Levels] }

\* A plausible slip: the dispatch one item short of the channel.
BackProjectExtentShort == image_size - 1

\* cl::NDRange(image_size) on line 281: one item per pixel.
BackProjectExtent == image_size

(* back_project(A, B, LUT): item gid writes B[gid] = LUT[A[gid]].          *)
back_project(A, B, LUT) ==
    [p \in 1..Len(B) |-> IF p <= BackProjectExtent THEN LUT[A[p] + 1] ELSE B[p]]

InitProject ==
    /\ IdleLanes
    /\ IdleData
    /\ pc = "split"
    /\ \E sh \in Shapes : width = sh[1] /\ height = sh[2]
    /\ channels \in 1..MaxProjChannels
    /\ image_input \in LoadedImages(width, height, channels)
    /\ num_bins \in 1..MaxBins
    /\ scan_type \in {BL, HS}
    /\ padded_num_bins = next_power_of_2(num_bins)
    /\ hist_size = HistSize(scan_type, padded_num_bins, num_bins)
    /\ input_channels = <<>>
    /\ dev_image_output = <<>>
    /\ dev_luts = <<>>
    /\ output_buffer = <<>>
    /\ output_samples = <<>>
    /\ argv = <<>>
    /\ i = 1
    /\ platform_id = 0
    /\ device_id = 0
    /\ image_filename = <<>>
    /\ listed = FALSE
    /\ help_printed = FALSE
    /\ exit_status = UNSET
    /\ error = "none"
    /\ loaded = TRUE
    /\ c = 0
    /\ queue = <<>>
    /\ dispatched = {}
    /\ done = {}
    /\ output_image = FALSE
    /\ reported = FALSE

(* The split into channels and the creation of every channel's device      *)
(* buffers; the loop then starts at c = 0 with the samples of              *)
(* input_channels[0].                                                      *)
SplitChannelData ==
    /\ pc = "split"
    /\ input_channels' =
          [ch \in 1..channels |-> [xy \in Positions |-> image_input[ch][xy]]]
    /\ dev_image_output' = [ch \in 1..channels |-> Filled(width * height, UNINIT)]
    /\ dev_histogram' = Filled(hist_size, UNINIT)
    /\ dev_cum_histogram' = Filled(hist_size, UNINIT)
    /\ dev_lut' = Filled(IntensityLevels, UNINIT)
    /\ c' = 0
    /\ image' = Data(input_channels'[1])
    /\ pc' = "step1"
    /\ UNCHANGED <<padVars, histogram, cum_histogram, lut, laneVars,
                   argv, parseVars, exit_status, error, loaded, channels,
                   output_image, reported, queueVars,
                   width, height, image_input, dev_luts, output_buffer,
                   output_samples>>

\* Step 5: back_project over image_size items, then the read-back.
Step5 ==
    /\ pc = "step5"
    /\ dev_image_output' =
          [dev_image_output EXCEPT ![c + 1] = back_project(image, @, dev_lut)]
    /\ output_buffer' = dev_image_output'[c + 1]
    /\ pc' = "update"
    /\ UNCHANGED <<padVars, dataVars, laneVars, hostVars,
                   width, height, image_input, input_channels, dev_luts,
                   output_samples>>

(* input_channels[c](x, y) = output_buffer[x + y * width], then c++: the   *)
(* next channel starts with its own samples and its own device buffers,    *)
(* not yet written; dev_lut[c] stays as step 4 left it.                    *)
UpdateChannelData ==
    /\ pc = "update"
    /\ input_channels' =
          [input_channels EXCEPT ![c + 1] =
              [xy \in Positions |-> output_buffer[Offset(xy[1], xy[2]) + 1]]]
    /\ dev_luts' = Append(dev_luts, dev_lut)
    /\ c' = c + 1
    /\ IF c' < channels
       THEN /\ image' = Data(input_channels'[c' + 1])
            /\ dev_histogram' = Filled(hist_size, UNINIT)
            /\ dev_cum_histogram' = Filled(hist_size, UNINIT)
            /\ dev_lut' = Filled(IntensityLevels, UNINIT)
            /\ histogram' = <<>>
            /\ cum_histogram' = <<>>
            /\ lut' = <<>>
            /\ pc' = "step1"
       ELSE /\ pc' = "combine"
            /\ UNCHANGED dataVars
    /\ UNCHANGED <<padVars, laneVars,
                   argv, parseVars, exit_status, error, loaded, channels,
                   output_image, reported, queueVars,
                   width, height, image_input, dev_image_output, output_buffer,
                   output_samples>>

\* output_image(x, y, 0, c) = input_channels[c](x, y)
CombineChannelData ==
    /\ pc = "combine"
    /\ output_samples' =
          [ch \in 1..channels |-> [xy \in Positions |-> input_channels[ch][xy]]]
    /\ pc' = "proj_done"
    /\ UNCHANGED <<padVars, dataVars, laneVars, hostVars,
                   width, height, image_input, input_channels, dev_image_output,
                   dev_luts, output_buffer>>

NextProject ==
    \/ SplitChannelData
    \/ Step1
    \/ Step2
    \/ Step3Blelloch
    \/ Step3HillisSteele
    \/ Step4
    \/ Step5
    \/ UpdateChannelData
    \/ CombineChannelData

SpecProject == InitProject /\ [][NextProject]_vars
-----------------------------------------------------------------------------
(* Spec: the host thread of main.                                          *)

MaxArgs == 2
MaxChannels == 3

OptP == <<"-", "p">>
OptD == <<"-", "d">>
OptL == <<"-", "l">>
OptF == <<"-", "f">>
OptB == <<"-", "b">>
OptS == <<"-", "s">>
OptH == <<"-", "h">>

\* std::string image_filename = "mdr16.ppm";
DefaultImage == <<"m", "d", "r", "1", "6", ".", "p", "p", "m">>

\* The words a command line is made of here.
ArgTokens == {OptP, OptD, OptL, OptF, OptB, OptS, OptH, <<"2">>, HS}

CommandLines == UNION { [1..n -> ArgTokens] : n \in 0..MaxArgs }

Digits == {"0", "1", "2", "3", "4", "5", "6", "7", "8", "9"}

DigitValue(ch) ==
    CASE ch = "0" -> 0 [] ch = "1" -> 1 [] ch = "2" -> 2 [] ch = "3" -> 3
      [] ch = "4" -> 4 [] ch = "5" -> 5 [] ch = "6" -> 6 [] ch = "7" -> 7
      [] ch = "8" -> 8 [] ch = "9" -> 9

\* The value of the leading digits of str, after acc.
RECURSIVE AtoiDigits(_, _)
AtoiDigits(str, acc) ==
    IF str = <<>> \/ Head(str) \notin Digits THEN acc
    ELSE AtoiDigits(Tail(str), 10 * acc + DigitValue(Head(str)))

\* atoi: an optional sign, then digits up to the first other character.
atoi(str) ==
    IF str = <<>> THEN 0
    ELSE IF Head(str) = "-" THEN 0 - AtoiDigits(Tail(str), 0)
    ELSE IF Head(str) = "+" THEN AtoiDigits(Tail(str), 0)
    ELSE AtoiDigits(str, 0)

Init ==
    /\ IdleProj
    /\ IdleData
    /\ IdleLanes
    /\ pc = "parse"
    /\ argv \in CommandLines
    /\ i = 1
    /\ platform_id = 0
    /\ device_id = 0
    /\ image_filename = DefaultImage
    /\ num_bins = 256
    /\ scan_type = BL
    /\ padded_num_bins = UNSET
    /\ hist_size = UNSET
    /\ listed = FALSE
    /\ help_printed = FALSE
    /\ exit_status = UNSET
    /\ error = "none"
    /\ loaded = FALSE
    /\ channels = 0
    /\ c = 0
    /\ queue = <<>>
    /\ dispatched = {}
    /\ done = {}
    /\ output_image = FALSE
    /\ reported = FALSE

\* A plausible slip: -l made to end the run, as -h does.
AfterListExit == "exited"

\* Line 46 prints the list and falls through to the next argument.
AfterList == "parse"

(* One turn of  for (int i = 1; i < argc; i++)  with its chain of          *)
(* else-ifs; an option that takes a value reads it with argv[++i].         *)
ParseArg ==
    /\ pc = "parse"
    /\ i <= Len(argv)
    /\ LET a == argv[i]
           more == i < Len(argv)
       IN  IF a = OptP /\ more THEN
               /\ platform_id' = atoi(argv[i + 1])
               /\ i' = i + 2
               /\ UNCHANGED <<pc, device_id, image_filename, num_bins, scan_type,
                              listed, help_printed, exit_status, projVars>>
           ELSE IF a = OptD /\ more THEN
               /\ device_id' = atoi(argv[i + 1])
               /\ i' = i + 2
               /\ UNCHANGED <<pc, platform_id, image_filename, num_bins, scan_type,
                              listed, help_printed, exit_status, projVars>>
           ELSE IF a = OptL THEN
               /\ listed' = TRUE
               /\ pc' = AfterList
               /\ i' = i + 1
               /\ UNCHANGED <<platform_id, device_id, image_filename, num_bins,
                              scan_type, help_printed, exit_status, projVars>>
           ELSE IF a = OptF /\ more THEN
               /\ image_filename' = argv[i + 1]
               /\ i' = i + 2
               /\ UNCHANGED <<pc, platform_id, device_id, num_bins, scan_type,
                              listed, help_printed, exit_status, projVars>>
           ELSE IF a = OptB /\ more THEN
               /\ num_bins' = atoi(argv[i + 1])
               /\ i' = i + 2
               /\ UNCHANGED <<pc, platform_id, device_id, image_filename, scan_type,
                              listed, help_printed, exit_status, projVars>>
           ELSE IF a = OptS /\ more THEN
               /\ scan_type' = argv[i + 1]
               /\ i' = i + 2
               /\ UNCHANGED <<pc, platform_id, device_id, image_filename, num_bins,
                              listed, help_printed, exit_status, projVars>>
           ELSE IF a = OptH THEN
               /\ help_printed' = TRUE
               /\ exit_status' = 0
               /\ pc' = "exited"
               /\ UNCHANGED <<i, platform_id, device_id, image_filename, num_bins,
                              scan_type, listed, projVars>>
           ELSE
               /\ i' = i + 1
               /\ UNCHANGED <<pc, platform_id, device_id, image_filename, num_bins,
                              scan_type, listed, help_printed, exit_status, projVars>>
    /\ UNCHANGED <<argv, padded_num_bins, hist_size, error, runVars, queueVars,
                   dataVars, laneVars, projVars>>

\* The loop ends; if (num_bins <= 0) return 1; then the padding of line 60.
ValidateBins ==
    /\ pc = "parse"
    /\ i > Len(argv)
    /\ IF num_bins <= 0
       THEN /\ error' = "config"
            /\ exit_status' = 1
            /\ pc' = "exited"
            /\ UNCHANGED padded_num_bins
       ELSE /\ padded_num_bins' = next_power_of_2(num_bins)
            /\ pc' = "validate_scan"
            /\ UNCHANGED <<error, exit_status, projVars>>
    /\ UNCHANGED <<argv, parseVars, num_bins, scan_type, hist_size, runVars,
                   queueVars, dataVars, laneVars, projVars>>

\* if (scan_type != "bl" && scan_type != "hs") return 1;
ValidateScan ==
    /\ pc = "validate_scan"
    /\ IF scan_type # BL /\ scan_type # HS
       THEN /\ error' = "config"
            /\ exit_status' = 1
            /\ pc' = "exited"
       ELSE /\ pc' = "load"
            /\ UNCHANGED <<error, exit_status, projVars>>
    /\ UNCHANGED <<argv, parseVars, padVars, runVars, queueVars, dataVars, laneVars, projVars>>

(* Inside the try block.  A call that can fail throws (cl::Error from the  *)
(* OpenCL wrapper, CImgException from CImg); Throw below takes the host    *)
(* from any such call to the handlers of lines 356-360.                    *)

\* CImg<...> image(image_filename.c_str()): the decoded image, of any spectrum.
LoadImage ==
    /\ pc = "load"
    /\ loaded' = TRUE
    /\ \E k \in 1..MaxChannels : channels' = k
    /\ pc' = "display_input"
    /\ UNCHANGED <<argv, parseVars, padVars, exit_status, error, c, output_image,
                   reported, queueVars, dataVars, laneVars, projVars>>

\* A host-only statement at p that goes on to next.
HostAt(p, next) ==
    /\ pc = p
    /\ pc' = next
    /\ UNCHANGED <<argv, parseVars, padVars, exit_status, error, runVars,
                   queueVars, dataVars, laneVars, projVars>>

\* CImgDisplay disp_input(image_input, "Input Image");
DisplayInput == HostAt("display_input", "context")

\* GetContext, the platform and device names, the command queue.
CreateContext == HostAt("context", "build")

\* AddSources, cl::Program, program.build().
BuildProgram == HostAt("build", "split")

\* A plausible addition: a check that lets only 1 or 3 channels through.
OnlyOneOrThreeChannels(k) == k \in {1, 3}

\* Lines 120-132 split whatever spectrum the image has: no count is refused.
ChannelCountAccepted(k) == TRUE

\* std::vector<CImg<unsigned short>> input_channels(channels), filled per channel.
SplitChannels ==
    /\ pc = "split"
    /\ IF ChannelCountAccepted(channels)
       THEN /\ pc' = "alloc"
            /\ UNCHANGED error
       ELSE /\ pc' = "catch"
            /\ error' = "UnsupportedChannelCount"
    /\ UNCHANGED <<argv, parseVars, padVars, exit_status, runVars, queueVars,
                   dataVars, laneVars, projVars>>

\* hist_size and the five device buffers of every channel; then c = 0.
AllocateBuffers ==
    /\ pc = "alloc"
    /\ hist_size' = HistSize(scan_type, padded_num_bins, num_bins)
    /\ c' = 0
    /\ pc' = "s1_write_input"
    /\ UNCHANGED <<argv, parseVars, num_bins, scan_type, padded_num_bins,
                   exit_status, error, loaded, channels, output_image, reported,
                   queueVars, dataVars, laneVars, projVars>>

\* queue.enqueue...: command cmd of channel c joins the queue.
EnqueueAt(p, cmd, next) ==
    /\ pc = p
    /\ queue' = Append(queue, <<c, cmd>>)
    /\ dispatched' = dispatched \cup {<<c, cmd>>}
    /\ pc' = next
    /\ UNCHANGED <<argv, parseVars, padVars, exit_status, error, runVars, done,
                   dataVars, laneVars, projVars>>

\* The host blocked (a blocking call, or event.wait()) until cmd has completed.
WaitAt(p, cmd, next) ==
    /\ pc = p
    /\ <<c, cmd>> \in done
    /\ pc' = next
    /\ UNCHANGED <<argv, parseVars, padVars, exit_status, error, runVars,
                   queueVars, dataVars, laneVars, projVars>>

\* Step 1: the two blocking writes (CL_TRUE).
Step1WriteInput == EnqueueAt("s1_write_input", "write_input", "s1_write_input_wait")
Step1WriteInputDone == WaitAt("s1_write_input_wait", "write_input", "s1_write_zeros")
Step1WriteZeros == EnqueueAt("s1_write_zeros", "write_zeros", "s1_write_zeros_wait")
Step1WriteZerosDone == WaitAt("s1_write_zeros_wait", "write_zeros", "s2_dispatch")

\* Step 2: hist_local, event2a.wait(), the blocking read, the histogram window.
Step2Dispatch == EnqueueAt("s2_dispatch", "hist_local", "s2_wait")
Step2Wait == WaitAt("s2_wait", "hist_local", "s2_read")
Step2Read == EnqueueAt("s2_read", "read_histogram", "s2_read_wait")
Step2ReadDone == WaitAt("s2_read_wait", "read_histogram", "s2_display")
Step2Display == HostAt("s2_display", "s3_dispatch")

\* Step 3: scan_bl, or scan_hs followed by the copy, which is not waited for.
Step3DispatchBl ==
    /\ scan_type = BL
    /\ EnqueueAt("s3_dispatch", "scan_bl", "s3_wait_bl")

Step3WaitBl == WaitAt("s3_wait_bl", "scan_bl", "s3_read")

Step3DispatchHs ==
    /\ scan_type = HS
    /\ EnqueueAt("s3_dispatch", "scan_hs", "s3_wait_hs")

Step3WaitHs == WaitAt("s3_wait_hs", "scan_hs", "s3_copy")
Step3Copy == EnqueueAt("s3_copy", "copy_cum_histogram", "s3_read")
Step3Read == EnqueueAt("s3_read", "read_cum_histogram", "s3_read_wait")
Step3ReadDone == WaitAt("s3_read_wait", "read_cum_histogram", "s3_display")
Step3Display == HostAt("s3_display", "s4_dispatch")

\* Step 4: normalize_lut, event4a.wait(), the blocking read of the LUT.
Step4Dispatch == EnqueueAt("s4_dispatch", "normalize_lut", "s4_wait")
Step4Wait == WaitAt("s4_wait", "normalize_lut", "s4_read")
Step4Read == EnqueueAt("s4_read", "read_lut", "s4_read_wait")
Step4ReadDone == WaitAt("s4_read_wait", "read_lut", "s4_display")
Step4Display == HostAt("s4_display", "s5_dispatch")

\* Step 5: back_project, event5a.wait(), the blocking read of the output.
Step5Dispatch == EnqueueAt("s5_dispatch", "back_project", "s5_wait")
Step5Wait == WaitAt("s5_wait", "back_project", "s5_read")
Step5Read == EnqueueAt("s5_read", "read_output", "s5_read_wait")
Step5ReadDone == WaitAt("s5_read_wait", "read_output", "update_channel")

\* input_channels[c] takes the equalized data; c++ and the loop test.
UpdateChannel ==
    /\ pc = "update_channel"
    /\ c' = c + 1
    /\ pc' = IF c + 1 < channels THEN "s1_write_input" ELSE "combine"
    /\ UNCHANGED <<argv, parseVars, padVars, exit_status, error, loaded, channels,
                   output_image, reported, queueVars, dataVars, laneVars, projVars>>

\* CImg<unsigned short> output_image(width, height, 1, channels), filled.
CombineChannels ==
    /\ pc = "combine"
    /\ output_image' = TRUE
    /\ pc' = "display_output"
    /\ UNCHANGED <<argv, parseVars, padVars, exit_status, error, loaded, channels,
                   c, reported, queueVars, dataVars, laneVars, projVars>>

\* CImgDisplay disp_output(output_image, "Equalized Image");
DisplayOutput == HostAt("display_output", "report")

\* The performance metrics of every channel, lines 307-338.
PrintReport ==
    /\ pc = "report"
    /\ reported' = TRUE
    /\ pc' = "wait_close"
    /\ UNCHANGED <<argv, parseVars, padVars, exit_status, error, loaded, channels,
                   c, output_image, queueVars, dataVars, laneVars, projVars>>

\* A plausible fault: a queue that may run any pending command next.
RunnableOutOfOrder(q) == 1..Len(q)

(* The queue is created with CL_QUEUE_PROFILING_ENABLE alone (line 105),   *)
(* so it is in-order: the device runs the oldest pending command.          *)
Runnable(q) == IF q = <<>> THEN {} ELSE {1}

RemoveAt(q, k) == SubSeq(q, 1, k - 1) \o SubSeq(q, k + 1, Len(q))

\* The device completes a pending command.
DeviceRun ==
    /\ pc # "exited"
    /\ \E k \in Runnable(queue) :
          /\ done' = done \cup {queue[k]}
          /\ queue' = RemoveAt(queue, k)
    /\ UNCHANGED <<pc, argv, parseVars, padVars, exit_status, error, runVars,
                   dispatched, dataVars, laneVars, projVars>>

\* The statements of the try block that call into CImg.
CImgPcs == {"load", "display_input", "s2_display", "s3_display", "s4_display",
            "display_output"}

\* The statements of the try block that call into OpenCL.
OpenCLPcs ==
    {"context", "build", "alloc",
     "s1_write_input", "s1_write_input_wait", "s1_write_zeros", "s1_write_zeros_wait",
     "s2_dispatch", "s2_wait", "s2_read", "s2_read_wait",
     "s3_dispatch", "s3_wait_bl", "s3_wait_hs", "s3_copy", "s3_read", "s3_read_wait",
     "s4_dispatch", "s4_wait", "s4_read", "s4_read_wait",
     "s5_dispatch", "s5_wait", "s5_read", "s5_read_wait"}

\* The statements of the per-channel loop.
StagePcs == (OpenCLPcs \ {"context", "build", "alloc"})
            \cup {"s2_display", "s3_display", "s4_display", "update_channel"}

\* A plausible slip: a failure inside the loop only skips to the next channel.
AfterThrowSkipChannel(p) == IF p \in StagePcs THEN "update_channel" ELSE "catch"

\* The one try block of main: every exception lands in its handlers.
AfterThrow(p) == "catch"

\* A call fails and throws.
Throw ==
    /\ pc \in CImgPcs \cup OpenCLPcs
    /\ error' = IF pc \in CImgPcs THEN "CImgException" ELSE "cl::Error"
    /\ pc' = AfterThrow(pc)
    /\ UNCHANGED <<argv, parseVars, padVars, exit_status, runVars, queueVars,
                   dataVars, laneVars, projVars>>

\* The display loop ends, or a handler has printed the error: return 0;
Return0 ==
    /\ pc \in {"wait_close", "catch"}
    /\ exit_status' = 0
    /\ pc' = "exited"
    /\ UNCHANGED <<argv, parseVars, padVars, error, runVars, queueVars,
                   dataVars, laneVars, projVars>>

Next ==
    \/ ParseArg \/ ValidateBins \/ ValidateScan
    \/ LoadImage \/ DisplayInput \/ CreateContext \/ BuildProgram
    \/ SplitChannels \/ AllocateBuffers
    \/ Step1WriteInput \/ Step1WriteInputDone
    \/ Step1WriteZeros \/ Step1WriteZerosDone
    \/ Step2Dispatch \/ Step2Wait \/ Step2Read \/ Step2ReadDone \/ Step2Display
    \/ Step3DispatchBl \/ Step3WaitBl \/ Step3DispatchHs \/ Step3WaitHs
    \/ Step3Copy \/ Step3Read \/ Step3ReadDone \/ Step3Display
    \/ Step4Dispatch \/ Step4Wait \/ Step4Read \/ Step4ReadDone \/ Step4Display
    \/ Step5Dispatch \/ Step5Wait \/ Step5Read \/ Step5ReadDone
    \/ UpdateChannel \/ CombineChannels \/ DisplayOutput \/ PrintReport
    \/ DeviceRun \/ Throw \/ Return0

Spec == Init /\ [][Next]_vars

-----------------------------------------------------------------------------
(* Properties.                                                             *)

NonDecreasing(s) == \A j \in 1..Len(s), k \in 1..Len(s) : j <= k => s[j] <= s[k]

\* The least power of two that is at least n, by search.
LeastPowerOfTwo(n) ==
    CHOOSE q \in PowersOfTwo :
        q >= n /\ \A r \in PowersOfTwo : r >= n => q <= r

\* What the other scan algorithm's branch of step 3 reads back for the
\* histogram this run read back in step 2.
OtherScanReadback ==
    LET h == FirstN(histogram, num_bins)
    IN  IF scan_type = BL
        THEN Step3Hs(h, Filled(num_bins, UNINIT))[1]
        ELSE Step3Bl(h \o Filled(padded_num_bins - num_bins, 0))

C2_HistogramSumsToPixelCount ==
    pc = "hist_done" => SumSeq(FirstN(histogram, num_bins)) = image_size

\* With every work-item done the entries sum to the dispatch's extent.
HistogramSumsToGlobalSize ==
    pc = "hist_done" => SumSeq(FirstN(histogram, num_bins)) = global_size

\* Whatever the interleaving, the lanes leave what Step2 of SpecData computes.
LanesMatchStep2 ==
    pc = "hist_done" =>
        histogram = HistLocalResult(Filled(hist_size, 0), lane_val, num_bins)

(* C3: after step 3, under either scan, the first num_bins entries of the  *)
(* cumulative histogram are non-decreasing and entry num_bins - 1 is the   *)
(* channel's pixel count.                                                  *)
C3_CumulativeHistogramContract ==
    pc \in {"step4", "step5"} =>
        /\ NonDecreasing(FirstN(cum_histogram, num_bins))
        /\ cum_histogram[num_bins] = image_size

(* C4: after step 4 the LUT has an entry for every raw intensity, each in  *)
(* [0, output_max], non-decreasing in the intensity, and equal to the      *)
(* cumulative count of the intensity's bin times output_max / pixel count, *)
(* clamped.                                                                *)
C4_LutContract ==
    pc = "step5" =>
        /\ Len(lut) = IntensityLevels
        /\ \A v \in Levels : lut[v + 1] \in 0..output_max
        /\ NonDecreasing(lut)
        /\ \A v \in Levels :
              lut[v + 1] = Clamp((cum_histogram[BinOf(v, num_bins) + 1] * output_max)
                                 \div image_size)

\* A LUT that rises, one of whose entries the clamp cut down to output_max.
C4_Witness ==
    /\ pc = "step5"
    /\ lut[1] < lut[IntensityLevels]
    /\ \E v \in Levels :
          /\ (cum_histogram[BinOf(v, num_bins) + 1] * output_max) \div image_size
                > output_max
          /\ lut[v + 1] = output_max

(* C5: next_power_of_2(0) = 1; a power of two n > 0 is returned unchanged; *)
(* any other n gives the least power of two above it (100 gives 128); the  *)
(* histogram buffer has that length under "bl" and num_bins under "hs".    *)
C5_NextPowerOfTwo ==
    /\ next_power_of_2(0) = 1
    /\ pc # "pad" =>
          /\ num_bins = 0 => padded_num_bins = 1
          /\ (num_bins > 0 /\ num_bins \in PowersOfTwo) => padded_num_bins = num_bins
          /\ num_bins > 0 => padded_num_bins = LeastPowerOfTwo(num_bins)
          /\ num_bins = 100 => padded_num_bins = 128
    /\ pc = "sized" =>
          hist_size = IF scan_type = BL THEN LeastPowerOfTwo(num_bins) ELSE num_bins

C5_Witness ==
    /\ pc = "sized"
    /\ num_bins = 100
    /\ scan_type = BL
    /\ hist_size = 128

Dispatched(ch, cmd) == <<ch, cmd>> \in dispatched
Completed(ch, cmd) == <<ch, cmd>> \in done

Commands == {"write_input", "write_zeros", "hist_local", "read_histogram",
             "scan_bl", "scan_hs", "copy_cum_histogram", "read_cum_histogram",
             "normalize_lut", "read_lut", "back_project", "read_output"}

(* C6: in each channel the stages are dispatched in the order histogram,   *)
(* scan, normalize, back-project, each after the read-back of the one      *)
(* before; channel c+1 starts after channel c's output has been read back; *)
(* and a stage's read-back completes only after every device command of    *)
(* that stage, the copy after scan_hs included.                            *)
C6_StageOrderAndSync ==
    \A ch \in 0..(MaxChannels - 1) :
        /\ Dispatched(ch, "hist_local") =>
              Completed(ch, "write_input") /\ Completed(ch, "write_zeros")
        /\ (Dispatched(ch, "scan_bl") \/ Dispatched(ch, "scan_hs")) =>
              Completed(ch, "read_histogram")
        /\ Dispatched(ch, "normalize_lut") => Completed(ch, "read_cum_histogram")
        /\ Dispatched(ch, "back_project") => Completed(ch, "read_lut")
        /\ (ch > 0 /\ \E cmd \in Commands : Dispatched(ch, cmd)) =>
              Completed(ch - 1, "read_output")
        /\ Completed(ch, "read_histogram") => Completed(ch, "hist_local")
        /\ Completed(ch, "read_cum_histogram") =>
              /\ scan_type = BL => Completed(ch, "scan_bl")
              /\ scan_type = HS =>
                    Completed(ch, "scan_hs") /\ Completed(ch, "copy_cum_histogram")
        /\ Completed(ch, "read_lut") => Completed(ch, "normalize_lut")
        /\ Completed(ch, "read_output") => Completed(ch, "back_project")

\* The second channel of a Hillis-Steele run, read back to the end.
C6_Witness ==
    /\ scan_type = HS
    /\ Completed(0, "copy_cum_histogram")
    /\ Completed(1, "read_cum_histogram")
    /\ Completed(1, "read_output")

(* C7: a run that ended on a fatal error (a configuration error, or an     *)
(* exception raised while loading or on the device) returned a non-zero    *)
(* status.                                                                 *)
C7_FatalErrorExitsNonZero ==
    (pc = "exited" /\ error # "none") => exit_status # 0

\* A step taken after a call has failed.
FailureAbortsStep ==
    error \in {"cl::Error", "CImgException"} =>
        /\ dispatched' = dispatched
        /\ c' = c
        /\ output_image' = output_image
        /\ reported' = reported
        /\ pc' \in {"catch", "exited"}

(* C8: once a call has failed, nothing more is dispatched, the channel     *)
(* loop does not advance, neither the output image nor the report is       *)
(* produced, and the host only goes through the handler to the exit.       *)
C8_FailureAborts == [][FailureAbortsStep]_vars

\* The scan of the first of two channels failed: the run ended there.
C8_Witness ==
    /\ pc = "exited"
    /\ error = "cl::Error"
    /\ channels = 2
    /\ c = 0
    /\ Dispatched(0, "hist_local")
    /\ Dispatched(0, "scan_bl")
    /\ ~Dispatched(0, "read_cum_histogram")
    /\ ~output_image
    /\ ~reported

\* The options that read a value with argv[++i].
ValueOptions == {OptP, OptD, OptF, OptB, OptS}

\* The positions from k on that the loop reads as options, not as values.
RECURSIVE OptionIndexes(_)
OptionIndexes(k) ==
    IF k > Len(argv) THEN {}
    ELSE {k} \cup OptionIndexes(
             IF argv[k] \in ValueOptions /\ k < Len(argv) THEN k + 2 ELSE k + 1)

HelpOption == \E k \in OptionIndexes(1) : argv[k] = OptH

(* C9, as claimed: with -l on the command line the program exits without   *)
(* loading an image or dispatching a stage; with -h on it, it prints usage *)
(* and exits 0 without running the pipeline.                               *)
C9_ListOrHelpExits ==
    /\ (\E k \in 1..Len(argv) : argv[k] = OptL) =>
          ~loaded /\ dispatched = {}
    /\ (\E k \in 1..Len(argv) : argv[k] = OptH) =>
          /\ ~loaded /\ dispatched = {}
          /\ pc = "exited" => help_printed /\ exit_status = 0

(* C9, amended: -l read as an option lists and goes on with the next       *)
(* argument (only -h ends the parse before the last argument); -h read as  *)
(* an option, not as the value of -p, -d, -f, -b or -s, prints usage and   *)
(* exits 0 with no image loaded and nothing dispatched.                    *)
C9_ListContinuesHelpExits ==
    /\ HelpOption =>
          /\ ~loaded /\ dispatched = {}
          /\ pc = "exited" => help_printed /\ exit_status = 0 /\ error = "none"
    /\ (pc # "parse" /\ ~help_printed) => i > Len(argv)
    /\ listed <=> \E k \in OptionIndexes(1) : k < i /\ argv[k] = OptL

\* -l alone: the list is printed and the pipeline runs all the same.
C9_Witness ==
    /\ argv = <<OptL>>
    /\ listed
    /\ loaded
    /\ Completed(0, "back_project")

LutApplied(ch) ==
    [xy \in Positions |-> dev_luts[ch][image_input[ch][xy] + 1]]

\* LUT[v] = v for every raw intensity v.
IdentityLut == [k \in 1..IntensityLevels |-> k - 1]

(* C11: at every pixel position of every channel the final output image    *)
(* holds LUT_c[v], v being the loaded image's sample there and LUT_c that  *)
(* channel's own look-up table; the channels come back in their original   *)
(* order; while one channel is processed the samples of every other        *)
(* channel stay as they were (a channel already processed holds its        *)
(* mapped samples, a channel not yet processed its loaded samples); and    *)
(* back_project with the identity table in place of the channel's table    *)
(* gives back the channel's samples, as does a channel whose own table is  *)
(* the identity.                                                           *)
C11_BackProjectionAndRecombination ==
    /\ pc # "split" =>
          \A ch \in 1..channels :
              input_channels[ch] =
                  IF ch <= c THEN LutApplied(ch) ELSE image_input[ch]
    /\ pc = "update" =>
          output_buffer = [p \in 1..image_size |-> dev_lut[image[p] + 1]]
    /\ pc = "proj_done" =>
          \A ch \in 1..channels : \A xy \in Positions :
              output_samples[ch][xy] = dev_luts[ch][image_input[ch][xy] + 1]
    /\ pc = "step5" =>
          back_project(image, dev_image_output[c + 1], IdentityLut) = image
    /\ \A ch \in 1..Len(dev_luts) :
          dev_luts[ch] = IdentityLut => input_channels[ch] = image_input[ch]

C11_Witness ==
    /\ pc = "proj_done"
    /\ channels = 2
    /\ width * height >= 2
    /\ dev_luts[1] # dev_luts[2]
    /\ \A ch \in 1..channels : output_samples[ch] # image_input[ch]
    /\ \E xy \in Positions, uv \in Positions :
          output_samples[1][xy] # output_samples[1][uv]

=============================================================================
